---- MODULE Spec2Model ----
(***************************************************************************)
(* Model of simple_command (src/lib.rs): tokenise a command line, spawn    *)
(* the program with stdout and stderr piped, drain both pipes through two  *)
(* BufReaders into one buffer, wait for the child, panic on failure.       *)
(*                                                                         *)
(* The runner is one thread; the child is a separate OS process.  Runner   *)
(* steps are cut at the calls that can block (fill_buf on a pipe, wait).   *)
(***************************************************************************)
EXTENDS Integers, Sequences, FiniteSets, TLC

VARIABLES
    cmd,        \* the &str argument: a sequence of characters
    words,      \* Vec of tokens (line 19)
    pc,         \* position of the runner in simple_command
    output,     \* the Vec<u8> `output` (line 31)
    origin,     \* ghost: for each byte of output, the stream it was read from
    bufOut,     \* unconsumed bytes held by BufReader `stdout` (line 37)
    bufErr,     \* unconsumed bytes held by BufReader `stderr` (line 38)
    resOut,     \* result of stdout.fill_buf() in this iteration: "none" | "ok" | "err"
    resErr,     \* result of stderr.fill_buf() in this iteration
    pipeOut,    \* bytes in the kernel pipe of the child's stdout
    pipeErr,    \* bytes in the kernel pipe of the child's stderr
    outOpen,    \* the write end of the stdout pipe is open
    errOpen,    \* the write end of the stderr pipe is open
    child,      \* "none" | "running" | "exited"
    textOut,    \* the bytes the child's program writes to stdout
    textErr,    \* the bytes the child's program writes to stderr
    planExit,   \* the exit code the child's program ends with, or Hang
    wroteOut,   \* ghost: bytes the child has written to stdout, in order
    wroteErr,   \* ghost: bytes the child has written to stderr, in order
    exitStatus, \* the ExitStatus of the child once it has exited
    status,     \* the ExitStatus child.wait() returned to the runner (line 64)
    didRead,    \* ghost: a fill_buf() call has returned
    didWait,    \* ghost: child.wait() has been called
    diag,       \* the panic message, NoDiag when the runner has not panicked
    calls       \* number of invocations of simple_command that have returned

vars == <<cmd, words, pc, output, origin, bufOut, bufErr, resOut, resErr,
          pipeOut, pipeErr, outOpen, errOpen, child, textOut, textErr, planExit,
          wroteOut, wroteErr, exitStatus, status, didRead, didWait, diag,
          calls>>

runnerVars == <<words, pc, output, origin, bufOut, bufErr, resOut, resErr,
                status, didRead, didWait, diag>>
childVars  == <<child, textOut, textErr, planExit, wroteOut, wroteErr, exitStatus,
                outOpen, errOpen>>

(***************************************************************************)
(* Bounds and input sets                                                   *)
(***************************************************************************)
\* capacity of a kernel pipe, in bytes (scaled down)
PipeCap == 1
\* capacity of a BufReader's internal buffer, in bytes (scaled down)
BufCap == 1
\* the longest text a child's program writes to one stream
MaxText == 3

\* byte values a child writes: ASCII 'A' and 0xFF, which no UTF-8 text holds
Bytes == {65, 255}
\* the texts a child's program writes to a stream: of every length up to
\* MaxText, the two byte values alternating, so that a byte lost, repeated or
\* out of order changes the text
Alternating(first, n) ==
    [i \in 1..n |-> IF i % 2 = 1 THEN first ELSE CHOOSE b \in Bytes : b # first]
Texts == {Alternating(b, n) : b \in Bytes, n \in 0..MaxText}
\* U+FFFD REPLACEMENT CHARACTER
Replacement == 65533

\* command lines given to simple_command, as sequences of characters
CmdLines == { <<>>, <<" ">>, <<"\t", " ">>, <<"a">>, <<" ", "a", " ", " ", "b", "\t">> }

\* an Option<i32> is a sequence of length at most one: None is <<>>, Some(c) is <<c>>
None == <<>>
Some(c) == <<c>>
\* exit codes a child's program may end with
ExitCodes == {0, 3}
\* what a child's program ends with: exit(c), or never exiting
Hang == None
ExitPlans == {Some(c) : c \in ExitCodes} \cup {Hang}
\* std::process::ExitStatus: exited with a code, or terminated by a signal
Exited(c) == [signal |-> FALSE, code |-> Some(c)]
Signaled == [signal |-> TRUE, code |-> None]
\* the value of the status variables while there is no status
NoStatus == [signal |-> FALSE, code |-> None]

\* Success with a seeded fault: a status without a code counts as code 0
SuccessUnwrapOrZero(st) == st.code = None \/ st.code = Some(0)

\* Success with a seeded fault: the test of line 69 without its negation
SuccessInverted(st) == ~(st.signal = FALSE /\ st.code = Some(0))

\* ExitStatus::success()
Success(st) == st.signal = FALSE /\ st.code = Some(0)
\* ExitStatus::code()
Code(st) == IF st.signal THEN None ELSE st.code

\* the panic message: which panic!/unwrap raised it and the values it formats
NoDiag == [kind |-> "none", cmd |-> <<>>, code |-> None, text |-> <<>>, res |-> <<>>]

(***************************************************************************)
(* Pure functions                                                          *)
(***************************************************************************)
\* char::is_whitespace, on the characters of CmdLines
IsWhitespace(c) == c \in {" ", "\t", "\n"}

RECURSIVE SplitFrom(_, _, _)
SplitFrom(s, cur, acc) ==
    IF s = <<>>
    THEN IF cur = <<>> THEN acc ELSE Append(acc, cur)
    ELSE IF IsWhitespace(Head(s))
         THEN SplitFrom(Tail(s), <<>>, IF cur = <<>> THEN acc ELSE Append(acc, cur))
         ELSE SplitFrom(Tail(s), Append(cur, Head(s)), acc)

RECURSIVE SplitKeepEmpty(_, _, _)
SplitKeepEmpty(s, cur, acc) ==
    IF s = <<>>
    THEN Append(acc, cur)
    ELSE IF IsWhitespace(Head(s))
         THEN SplitKeepEmpty(Tail(s), <<>>, Append(acc, cur))
         ELSE SplitKeepEmpty(Tail(s), Append(cur, Head(s)), acc)

\* SplitWhitespace with a seeded fault: split(' '), which keeps the empty tokens
SplitOnEachSpace(s) == SplitKeepEmpty(s, <<>>, <<>>)

\* str::split_whitespace().collect(): the maximal runs of non-whitespace characters
SplitWhitespace(s) == SplitFrom(s, <<>>, <<>>)

RECURSIVE Utf8Lossy(_)
\* String::from_utf8_lossy on sequences over Bytes: an ASCII byte is its own
\* character, every 0xFF byte becomes one U+FFFD
Utf8Lossy(bs) ==
    IF bs = <<>> THEN <<>>
    ELSE <<(IF Head(bs) < 128 THEN Head(bs) ELSE Replacement)>> \o Utf8Lossy(Tail(bs))

Min(a, b) == IF a < b THEN a ELSE b

\* a sequence of n copies of x
Rep(n, x) == [i \in 1..n |-> x]

\* the elements of output that were read from stream s, in buffer order
RECURSIVE FromStream(_, _, _)
FromStream(out, org, s) ==
    IF out = <<>> THEN <<>>
    ELSE (IF Head(org) = s THEN <<Head(out)>> ELSE <<>>) \o FromStream(Tail(out), Tail(org), s)

IsPrefix(p, q) == Len(p) <= Len(q) /\ SubSeq(q, 1, Len(p)) = p

(***************************************************************************)
(* Initial state: simple_command(cmd) is about to be called                *)
(***************************************************************************)
Init ==
    /\ cmd \in CmdLines
    /\ words = <<>>
    /\ pc = "Idle"
    /\ output = <<>>
    /\ origin = <<>>
    /\ bufOut = <<>>
    /\ bufErr = <<>>
    /\ resOut = "none"
    /\ resErr = "none"
    /\ pipeOut = <<>>
    /\ pipeErr = <<>>
    /\ outOpen = FALSE
    /\ errOpen = FALSE
    /\ child = "none"
    /\ textOut = <<>>
    /\ textErr = <<>>
    /\ planExit = Hang
    /\ wroteOut = <<>>
    /\ wroteErr = <<>>
    /\ exitStatus = NoStatus
    /\ status = NoStatus
    /\ didRead = FALSE
    /\ didWait = FALSE
    /\ diag = NoDiag
    /\ calls = 0

(***************************************************************************)
(* The runner                                                              *)
(***************************************************************************)
Panic(d) == /\ pc' = "Aborted"
            /\ diag' = d

\* line 19
Tokenize ==
    /\ pc = "Idle"
    /\ words' = SplitWhitespace(cmd)
    /\ pc' = "Tokenized"
    /\ UNCHANGED <<cmd, calls, output, origin, bufOut, bufErr, resOut, resErr, status,
                   didRead, didWait, diag, pipeOut, pipeErr>>
    /\ UNCHANGED childVars

\* lines 20-22
EmptyCommand ==
    /\ pc = "Tokenized"
    /\ Len(words) = 0
    /\ Panic([NoDiag EXCEPT !.kind = "No command specified"])
    /\ UNCHANGED <<cmd, calls, words, output, origin, bufOut, bufErr, resOut, resErr,
                   status, didRead, didWait, pipeOut, pipeErr>>
    /\ UNCHANGED childVars

\* SpawnOk with a seeded fault: the buffer is not a new Vec but one that
\* outlives the call
SpawnOkKeepsBuffer ==
    /\ pc = "Tokenized"
    /\ Len(words) # 0
    /\ child' = "running"
    /\ outOpen' = TRUE
    /\ errOpen' = TRUE
    /\ textOut' \in Texts
    /\ textErr' \in Texts
    /\ planExit' \in ExitPlans
    /\ pipeOut' = <<>>
    /\ pipeErr' = <<>>
    /\ wroteOut' = <<>>
    /\ wroteErr' = <<>>
    /\ exitStatus' = NoStatus
    /\ pc' = "Spawned"
    /\ UNCHANGED <<cmd, calls, words, output, origin, bufOut, bufErr, resOut, resErr,
                   status, didRead, didWait, diag>>

\* lines 24-32, spawn() returns Ok: a new process with two new pipes runs the
\* program words[1] names, which the runner does not control
SpawnOk ==
    /\ pc = "Tokenized"
    /\ Len(words) # 0
    /\ output' = <<>>
    /\ origin' = <<>>
    /\ child' = "running"
    /\ outOpen' = TRUE
    /\ errOpen' = TRUE
    /\ textOut' \in Texts
    /\ textErr' \in Texts
    /\ planExit' \in ExitPlans
    /\ pipeOut' = <<>>
    /\ pipeErr' = <<>>
    /\ wroteOut' = <<>>
    /\ wroteErr' = <<>>
    /\ exitStatus' = NoStatus
    /\ pc' = "Spawned"
    /\ UNCHANGED <<cmd, calls, words, bufOut, bufErr, resOut, resErr, status,
                   didRead, didWait, diag>>

\* SpawnFailure with a seeded fault: the Err of spawn() is noted and the run goes on
SpawnFailureIgnored ==
    /\ pc = "Tokenized"
    /\ Len(words) # 0
    /\ output' = <<>>
    /\ origin' = <<>>
    /\ diag' = [NoDiag EXCEPT !.kind = "SpawnFailure"]
    /\ pc' = "Spawned"
    /\ UNCHANGED <<cmd, calls, words, bufOut, bufErr, resOut, resErr, status, didRead, didWait,
                   pipeOut, pipeErr>>
    /\ UNCHANGED childVars

\* SpawnFailure with a seeded fault: the call starts over when spawn() fails
SpawnFailureRetry ==
    /\ pc = "Tokenized"
    /\ Len(words) # 0
    /\ output' = <<>>
    /\ origin' = <<>>
    /\ pc' = "Idle"
    /\ UNCHANGED <<cmd, calls, words, bufOut, bufErr, resOut, resErr, status,
                   didRead, didWait, diag, pipeOut, pipeErr>>
    /\ UNCHANGED childVars

\* lines 24-32, spawn() returns Err and unwrap() panics
SpawnFailure ==
    /\ pc = "Tokenized"
    /\ Len(words) # 0
    /\ output' = <<>>
    /\ origin' = <<>>
    /\ Panic([NoDiag EXCEPT !.kind = "SpawnFailure"])
    /\ UNCHANGED <<cmd, calls, words, bufOut, bufErr, resOut, resErr, status, didRead, didWait,
                   pipeOut, pipeErr>>
    /\ UNCHANGED childVars

\* lines 33-40: take the two handles, wrap them in BufReaders, enter the loop
EnterLoop ==
    /\ pc = "Spawned"
    /\ bufOut' = <<>>
    /\ bufErr' = <<>>
    /\ pc' = "FillStdout"
    /\ UNCHANGED <<cmd, calls, words, output, origin, resOut, resErr, status, didRead, didWait,
                   diag, pipeOut, pipeErr>>
    /\ UNCHANGED childVars

\* BufReader::fill_buf: the bytes held if there are any, else one read() of at
\* most BufCap bytes from the pipe.  <<held bytes, bytes left in the pipe>>
FillBuf(buf, pipe) ==
    IF buf # <<>>
    THEN <<buf, pipe>>
    ELSE <<SubSeq(pipe, 1, Min(BufCap, Len(pipe))),
           SubSeq(pipe, Min(BufCap, Len(pipe)) + 1, Len(pipe))>>

\* CanFill with a seeded fault: a read() that returns 0 bytes when the pipe is
\* empty, closed or not
CanFillNonBlocking(buf, pipe, open) == TRUE

\* CanFill with a seeded fault: a write end left open in the runner, so that
\* a read() of an empty pipe never returns
CanFillNoEof(buf, pipe, open) == buf # <<>> \/ pipe # <<>>

\* a read() of a blocking pipe returns once the pipe holds a byte or every
\* write end is closed; fill_buf does not read when it holds bytes
CanFill(buf, pipe, open) == buf # <<>> \/ pipe # <<>> \/ ~open

\* line 41, first component: stdout.fill_buf() returns Ok
FillStdoutOk ==
    /\ pc = "FillStdout"
    /\ CanFill(bufOut, pipeOut, outOpen)
    /\ bufOut' = FillBuf(bufOut, pipeOut)[1]
    /\ pipeOut' = FillBuf(bufOut, pipeOut)[2]
    /\ resOut' = "ok"
    /\ didRead' = TRUE
    /\ pc' = "FillStderr"
    /\ UNCHANGED <<cmd, calls, words, output, origin, bufErr, resErr, status, didWait,
                   diag, pipeErr>>
    /\ UNCHANGED childVars

\* line 41, first component: the read() under stdout.fill_buf() returns Err;
\* the tuple's second component is evaluated all the same
FillStdoutErr ==
    /\ pc = "FillStdout"
    /\ bufOut = <<>>
    /\ resOut' = "err"
    /\ didRead' = TRUE
    /\ pc' = "FillStderr"
    /\ UNCHANGED <<cmd, calls, words, output, origin, bufOut, bufErr, resErr, status,
                   didWait, diag, pipeOut, pipeErr>>
    /\ UNCHANGED childVars

\* line 41, second component: stderr.fill_buf() returns Ok
FillStderrOk ==
    /\ pc = "FillStderr"
    /\ CanFill(bufErr, pipeErr, errOpen)
    /\ bufErr' = FillBuf(bufErr, pipeErr)[1]
    /\ pipeErr' = FillBuf(bufErr, pipeErr)[2]
    /\ resErr' = "ok"
    /\ didRead' = TRUE
    /\ pc' = "Match"
    /\ UNCHANGED <<cmd, calls, words, output, origin, bufOut, resOut, status, didWait,
                   diag, pipeOut>>
    /\ UNCHANGED childVars

\* line 41, second component: the read() under stderr.fill_buf() returns Err
FillStderrErr ==
    /\ pc = "FillStderr"
    /\ bufErr = <<>>
    /\ resErr' = "err"
    /\ didRead' = TRUE
    /\ pc' = "Match"
    /\ UNCHANGED <<cmd, calls, words, output, origin, bufOut, bufErr, resOut, status,
                   didWait, diag, pipeOut, pipeErr>>
    /\ UNCHANGED childVars

\* LoopDone with a seeded fault: || for &&
LoopDoneEither(stdout_bytes, stderr_bytes) == stdout_bytes = 0 \/ stderr_bytes = 0

\* line 51: the loop ends when neither fill_buf gave a byte
LoopDone(stdout_bytes, stderr_bytes) == stdout_bytes = 0 /\ stderr_bytes = 0

\* BufReader::consume(amt): drop the first amt held bytes, at most all of them
Consume(buf, amt) == SubSeq(buf, Min(amt, Len(buf)) + 1, Len(buf))

\* MatchOk with a seeded fault: the two consume() calls with their amounts exchanged
MatchOkSwapped ==
    /\ pc = "Match"
    /\ resOut = "ok" /\ resErr = "ok"
    /\ output' = output \o bufOut \o bufErr
    /\ origin' = origin \o Rep(Len(bufOut), "out") \o Rep(Len(bufErr), "err")
    /\ IF LoopDone(Len(bufOut), Len(bufErr))
       THEN /\ pc' = "Drained"
            /\ UNCHANGED <<bufOut, bufErr>>
       ELSE /\ pc' = "FillStdout"
            /\ bufOut' = Consume(bufOut, Len(bufErr))
            /\ bufErr' = Consume(bufErr, Len(bufOut))
    /\ resOut' = "none"
    /\ resErr' = "none"
    /\ UNCHANGED <<cmd, calls, words, status, didRead, didWait, diag, pipeOut, pipeErr>>
    /\ UNCHANGED childVars

\* lines 42-47 and 51-59: both Ok; append both slices, then break or consume
MatchOk ==
    /\ pc = "Match"
    /\ resOut = "ok" /\ resErr = "ok"
    /\ output' = output \o bufOut \o bufErr
    /\ origin' = origin \o Rep(Len(bufOut), "out") \o Rep(Len(bufErr), "err")
    /\ IF LoopDone(Len(bufOut), Len(bufErr))
       THEN /\ pc' = "Drained"
            /\ UNCHANGED <<bufOut, bufErr>>
       ELSE /\ pc' = "FillStdout"
            /\ bufOut' = Consume(bufOut, Len(bufOut))
            /\ bufErr' = Consume(bufErr, Len(bufErr))
    /\ resOut' = "none"
    /\ resErr' = "none"
    /\ UNCHANGED <<cmd, calls, words, status, didRead, didWait, diag, pipeOut, pipeErr>>
    /\ UNCHANGED childVars

\* line 48: either fill_buf returned Err
MatchErr ==
    /\ pc = "Match"
    /\ ~(resOut = "ok" /\ resErr = "ok")
    /\ Panic([NoDiag EXCEPT !.kind = "Failed to read stdout or stderr",
                            !.res = <<resOut, resErr>>])
    /\ UNCHANGED <<cmd, calls, words, output, origin, bufOut, bufErr, resOut, resErr,
                   status, didRead, didWait, pipeOut, pipeErr>>
    /\ UNCHANGED childVars

\* lines 61-64: the BufReaders go out of scope and child.wait() is called
CallWait ==
    /\ pc = "Drained"
    /\ didWait' = TRUE
    /\ pc' = "Waiting"
    /\ UNCHANGED <<cmd, calls, words, output, origin, bufOut, bufErr, resOut, resErr,
                   status, didRead, diag, pipeOut, pipeErr>>
    /\ UNCHANGED childVars

\* WaitOk with a seeded fault: try_wait(), which returns whether or not the
\* child has exited
WaitOkNoBlock ==
    /\ pc = "Waiting"
    /\ status' = exitStatus
    /\ pc' = "Waited"
    /\ UNCHANGED <<cmd, calls, words, output, origin, bufOut, bufErr, resOut, resErr,
                   didRead, didWait, diag, pipeOut, pipeErr>>
    /\ UNCHANGED childVars

\* lines 64-65: wait() returns Ok once the child has exited
WaitOk ==
    /\ pc = "Waiting"
    /\ child = "exited"
    /\ status' = exitStatus
    /\ pc' = "Waited"
    /\ UNCHANGED <<cmd, calls, words, output, origin, bufOut, bufErr, resOut, resErr,
                   didRead, didWait, diag, pipeOut, pipeErr>>
    /\ UNCHANGED childVars

\* line 66: wait() returns Err
WaitErr ==
    /\ pc = "Waiting"
    /\ Panic([NoDiag EXCEPT !.kind = "WaitFailure"])
    /\ UNCHANGED <<cmd, calls, words, output, origin, bufOut, bufErr, resOut, resErr,
                   status, didRead, didWait, pipeOut, pipeErr>>
    /\ UNCHANGED childVars

\* lines 62 and 69-76: the message of the panic for the status st
FailureDiag(c, st, out) ==
    IF Code(st) # None
    THEN [NoDiag EXCEPT !.kind = "failed with return value",
                        !.cmd = c, !.code = Code(st), !.text = Utf8Lossy(out)]
    ELSE [NoDiag EXCEPT !.kind = "failed with no return value",
                        !.cmd = c, !.text = Utf8Lossy(out)]

\* lines 69-77, status.success(): return
Succeed ==
    /\ pc = "Waited"
    /\ Success(status)
    /\ pc' = "Succeeded"
    /\ UNCHANGED <<cmd, calls, words, output, origin, bufOut, bufErr, resOut, resErr,
                   status, didRead, didWait, diag, pipeOut, pipeErr>>
    /\ UNCHANGED childVars

\* lines 69-76, !status.success(): panic with the command, the code and the output
CommandFailed ==
    /\ pc = "Waited"
    /\ ~Success(status)
    /\ Panic(FailureDiag(cmd, status, output))
    /\ UNCHANGED <<cmd, calls, words, output, origin, bufOut, bufErr, resOut, resErr,
                   status, didRead, didWait, pipeOut, pipeErr>>
    /\ UNCHANGED childVars

\* the steps of the runner that are not a failure reported by the system
RunnerProgress ==
    \/ Tokenize
    \/ EmptyCommand
    \/ SpawnOk
    \/ EnterLoop
    \/ FillStdoutOk
    \/ FillStderrOk
    \/ MatchOk
    \/ MatchErr
    \/ CallWait
    \/ WaitOk
    \/ Succeed
    \/ CommandFailed

(***************************************************************************)
(* The child process: the program named by words[1], with the write ends   *)
(* of the two pipes as its stdout and stderr (lines 28-29)                 *)
(***************************************************************************)
\* write(1, b): blocks while the pipe is full
ChildWriteOut ==
    /\ child = "running"
    /\ outOpen
    /\ Len(wroteOut) < Len(textOut)
    /\ Len(pipeOut) < PipeCap
    /\ pipeOut' = Append(pipeOut, textOut[Len(wroteOut) + 1])
    /\ wroteOut' = Append(wroteOut, textOut[Len(wroteOut) + 1])
    /\ UNCHANGED <<cmd, calls, pipeErr, child, textOut, textErr, planExit, wroteErr,
                   exitStatus, outOpen, errOpen>>
    /\ UNCHANGED runnerVars

\* write(2, b): blocks while the pipe is full
ChildWriteErr ==
    /\ child = "running"
    /\ errOpen
    /\ Len(wroteErr) < Len(textErr)
    /\ Len(pipeErr) < PipeCap
    /\ pipeErr' = Append(pipeErr, textErr[Len(wroteErr) + 1])
    /\ wroteErr' = Append(wroteErr, textErr[Len(wroteErr) + 1])
    /\ UNCHANGED <<cmd, calls, pipeOut, child, textOut, textErr, planExit, wroteOut,
                   exitStatus, outOpen, errOpen>>
    /\ UNCHANGED runnerVars

\* close(1), once the program has written its stdout text
ChildCloseOut ==
    /\ child = "running"
    /\ outOpen
    /\ wroteOut = textOut
    /\ outOpen' = FALSE
    /\ UNCHANGED <<cmd, calls, pipeOut, pipeErr, child, textOut, textErr, planExit,
                   wroteOut, wroteErr, exitStatus, errOpen>>
    /\ UNCHANGED runnerVars

\* close(2), once the program has written its stderr text
ChildCloseErr ==
    /\ child = "running"
    /\ errOpen
    /\ wroteErr = textErr
    /\ errOpen' = FALSE
    /\ UNCHANGED <<cmd, calls, pipeOut, pipeErr, child, textOut, textErr, planExit,
                   wroteOut, wroteErr, exitStatus, outOpen>>
    /\ UNCHANGED runnerVars

\* the program has written both texts
ChildWritten == wroteOut = textOut /\ wroteErr = textErr

\* exit(c) at the end of the program: the kernel closes the write ends
ChildExit ==
    /\ child = "running"
    /\ ChildWritten
    /\ planExit # Hang
    /\ child' = "exited"
    /\ exitStatus' = Exited(planExit[1])
    /\ outOpen' = FALSE
    /\ errOpen' = FALSE
    /\ UNCHANGED <<cmd, calls, pipeOut, pipeErr, textOut, textErr, planExit, wroteOut,
                   wroteErr>>
    /\ UNCHANGED runnerVars

\* a signal terminates the child wherever it is in its program
ChildKilled ==
    /\ child = "running"
    /\ child' = "exited"
    /\ exitStatus' = Signaled
    /\ outOpen' = FALSE
    /\ errOpen' = FALSE
    /\ UNCHANGED <<cmd, calls, pipeOut, pipeErr, textOut, textErr, planExit, wroteOut,
                   wroteErr>>
    /\ UNCHANGED runnerVars

\* the steps every program takes: its writes and its exit.  Closing a stream
\* before the exit is something a program may do or not
ChildStep ==
    \/ ChildWriteOut
    \/ ChildWriteErr
    \/ ChildExit

Next ==
    \/ Tokenize
    \/ EmptyCommand
    \/ SpawnOk
    \/ SpawnFailure
    \/ EnterLoop
    \/ FillStdoutOk
    \/ FillStdoutErr
    \/ FillStderrOk
    \/ FillStderrErr
    \/ MatchOk
    \/ MatchErr
    \/ CallWait
    \/ WaitOk
    \/ WaitErr
    \/ Succeed
    \/ CommandFailed
    \/ ChildWriteOut
    \/ ChildWriteErr
    \/ ChildCloseOut
    \/ ChildCloseErr
    \/ ChildExit
    \/ ChildKilled

Spec == Init /\ [][Next]_vars

(***************************************************************************)
(* A caller that invokes simple_command a second time with the same        *)
(* command line once the first invocation has returned (line 77).  The     *)
(* variables keep what the first invocation left in them: whatever the     *)
(* second invocation starts from is what the code itself assigns.          *)
(***************************************************************************)
CallAgain ==
    /\ pc = "Succeeded"
    /\ calls = 0
    /\ calls' = calls + 1
    /\ pc' = "Idle"
    /\ didRead' = FALSE
    /\ didWait' = FALSE
    /\ UNCHANGED <<cmd, words, output, origin, bufOut, bufErr, resOut, resErr,
                   status, diag, pipeOut, pipeErr>>
    /\ UNCHANGED childVars

TwiceNext ==
    \/ Next
    \/ CallAgain

TwiceSpec == Init /\ [][TwiceNext]_vars

(***************************************************************************)
(* Fair scheduling: the operating system runs the runner and the child,    *)
(* so a step of the runner's code that can be taken is taken and so is a   *)
(* write or the exit of the child's program.  Nothing obliges the system   *)
(* to report a failure or to send a signal, nor a program to close a       *)
(* stream before it exits.                                                 *)
(***************************************************************************)
FairSpec == Spec /\ WF_vars(RunnerProgress) /\ WF_vars(ChildStep)

(***************************************************************************)
(* Vocabulary of the properties                                            *)
(***************************************************************************)
Terminal == pc \in {"Succeeded", "Aborted"}

\* the system reported a failure to the runner, or a signal ended the child
Fault ==
    \/ resOut = "err"
    \/ resErr = "err"
    \/ diag.kind \in {"Failed to read stdout or stderr", "WaitFailure"}
    \/ exitStatus = Signaled

\* the runner or the child's program can take a step
CanProceed == ENABLED RunnerProgress \/ ENABLED ChildStep

\* the runner is inside stdout.fill_buf(), in a read() that has not returned
BlockedOnStdout == pc = "FillStdout" /\ ~CanFill(bufOut, pipeOut, outOpen)
\* the runner is inside stderr.fill_buf(), in a read() that has not returned
BlockedOnStderr == pc = "FillStderr" /\ ~CanFill(bufErr, pipeErr, errOpen)

\* the bytes of the combined buffer that came from each stream
CapturedOut == FromStream(output, origin, "out")
CapturedErr == FromStream(output, origin, "err")

\* wait() has returned a status and the runner is deciding or has decided on it
StatusEvaluated ==
    \/ pc \in {"Waited", "Succeeded"}
    \/ diag.kind \in {"failed with return value", "failed with no return value"}

AllWhitespace(s) == \A i \in 1..Len(s) : s[i] \in {" ", "\t", "\n"}

(***************************************************************************)
(* Properties                                                              *)
(***************************************************************************)

\* C1: a child that writes to stdout only and exits with status 0 makes
\* simple_command return normally, however much it writes: unless the system
\* reports a failure or a signal ends the child, such a run has returned or
\* the runner or the child can take its next step (no deadlock), and it never
\* ends in a panic.
C1_StdoutOnlyReturns ==
    (child # "none" /\ textErr = <<>> /\ planExit = Some(0) /\ ~Fault)
        => /\ pc # "Aborted"
           /\ (pc = "Succeeded" \/ CanProceed)

\* C2: the runner is never blocked in the read of one stream while the pipe
\* of the other stream holds unread bytes.
C2_NoBlockedReadWithPending ==
    /\ ~(BlockedOnStdout /\ pipeErr # <<>>)
    /\ ~(BlockedOnStderr /\ pipeOut # <<>>)

\* C3: a command line that is empty or all whitespace panics with "No command
\* specified" as soon as it is past the tokenising, with no child spawned, no
\* read, no wait and no output captured.
C3_EmptyCommandAborts ==
    (AllWhitespace(cmd) /\ pc \notin {"Idle", "Tokenized"})
        => /\ pc = "Aborted"
           /\ diag.kind = "No command specified"
           /\ child = "none"
           /\ output = <<>>
           /\ ~didRead
           /\ ~didWait

C3_Witness ==
    /\ Len(cmd) > 0
    /\ AllWhitespace(cmd)
    /\ pc = "Aborted"
    /\ diag.kind = "No command specified"

\* C4: when spawn() fails the run is aborted with the spawn failure and has
\* read neither stream and never called wait; there is no child.
C4_SpawnFailureStops ==
    diag.kind = "SpawnFailure"
        => /\ pc = "Aborted"
           /\ ~didRead
           /\ ~didWait
           /\ child = "none"
           /\ output = <<>>

C4_Witness ==
    /\ diag.kind = "SpawnFailure"
    /\ pc = "Aborted"
    /\ Len(words) = 2

\* C5: a child that writes text to stdout and to stderr and exits with a
\* non-zero code makes simple_command panic with that code, the command line
\* and both texts in the combined output: unless the system reports a failure
\* or a signal ends the child, such a run has ended in that panic or the
\* runner or the child can take its next step.
C5_BothTextsInDiagnostic ==
    (child # "none" /\ textOut # <<>> /\ textErr # <<>>
        /\ planExit # Hang /\ planExit # Some(0) /\ ~Fault)
        => IF Terminal
           THEN /\ pc = "Aborted"
                /\ diag.kind = "failed with return value"
                /\ diag.code = planExit
                /\ diag.cmd = cmd
                /\ CapturedOut = textOut
                /\ CapturedErr = textErr
                /\ Len(diag.text) = Len(textOut) + Len(textErr)
           ELSE CanProceed

\* C6: once wait() has returned, the outcome is decided by the status alone:
\* exit code 0 returns without a panic; another exit code panics with the
\* command line, that code and the combined output; termination by a signal
\* panics with the command line, no code and the combined output.
C6_OutcomeFollowsStatus ==
    /\ pc = "Succeeded" => (status = Exited(0) /\ diag = NoDiag)
    /\ (StatusEvaluated /\ Terminal) =>
          /\ status = exitStatus
          /\ child = "exited"
          /\ IF status = Exited(0)
             THEN pc = "Succeeded" /\ diag = NoDiag
             ELSE /\ pc = "Aborted"
                  /\ diag.cmd = cmd
                  /\ Len(diag.text) = Len(output)
                  /\ \A i \in 1..Len(output) :
                        diag.text[i] = (IF output[i] = 255 THEN Replacement ELSE output[i])
                  /\ IF status.signal
                     THEN diag.kind = "failed with no return value" /\ diag.code = None
                     ELSE diag.kind = "failed with return value" /\ diag.code = status.code

C6_Witness ==
    /\ pc = "Aborted"
    /\ diag.kind = "failed with no return value"
    /\ status = Signaled
    /\ Len(output) = 2
    /\ 255 \in {output[i] : i \in 1..Len(output)}

\* C7: when the exit status is evaluated, the combined buffer holds every
\* byte the child wrote to stdout and to stderr exactly once, and nothing else.
C7_BufferIsWhatWasWritten ==
    StatusEvaluated
        => /\ CapturedOut = wroteOut
           /\ CapturedErr = wroteErr
           /\ Len(output) = Len(wroteOut) + Len(wroteErr)
           /\ Len(origin) = Len(output)

C7_Witness ==
    /\ StatusEvaluated
    /\ Len(wroteOut) = MaxText
    /\ Len(wroteErr) = MaxText
    /\ origin[2] = "err"

\* C8: in every state, the bytes of the combined buffer that came from stdout
\* are a prefix of what the child has written to stdout, and likewise for
\* stderr.
C8_StreamOrderKept ==
    /\ IsPrefix(CapturedOut, wroteOut)
    /\ IsPrefix(CapturedErr, wroteErr)

C8_Witness ==
    /\ Len(CapturedOut) >= 2
    /\ Len(CapturedErr) >= 2
    /\ Len(CapturedOut) < Len(wroteOut)
    /\ origin[2] = "err"
    /\ origin[3] = "out"

\* C9: once a read of stdout or of stderr has returned an error the run gets
\* to the panic: it has not called wait and has not returned, and it has
\* panicked or the runner, or else the program of a child that does exit, can
\* take its next step.
C9_ReadErrorAborts ==
    ((resOut = "err" \/ resErr = "err") /\ planExit # Hang)
        => /\ ~didWait
           /\ pc # "Succeeded"
           /\ (pc = "Aborted" \/ CanProceed)

\* C10: a child that writes nothing and exits with status 0 makes
\* simple_command return normally with an empty combined buffer: unless the
\* system reports a failure or a signal ends the child, the buffer stays
\* empty, the run never panics, and it has returned or the runner or the
\* child can take its next step.
C10_SilentSuccessReturns ==
    (child # "none" /\ textOut = <<>> /\ textErr = <<>> /\ planExit = Some(0) /\ ~Fault)
        => /\ output = <<>>
           /\ pc # "Aborted"
           /\ (pc = "Succeeded" \/ CanProceed)

C10_Witness ==
    /\ child = "exited"
    /\ textOut = <<>>
    /\ textErr = <<>>
    /\ exitStatus = Exited(0)
    /\ pc = "Succeeded"
    /\ output = <<>>
    /\ didRead

\* the second invocation is past its spawn
SecondRun == calls = 1 /\ pc \notin {"Idle", "Tokenized"} /\ diag.kind # "SpawnFailure"

\* C11: a second invocation with the same command line, after a first one
\* that returned, starts from an empty buffer and a new child with new pipes:
\* before its first read the buffer is empty, and at every moment what is in
\* its buffer, its two readers and its two pipes is exactly what its own
\* child has written; the status it decides on is its own child's; and with
\* a child that exits 0 (no failure reported, no signal) it never panics,
\* ends only by returning, and is never stuck when the child's texts fit the
\* pipes.
C11_SecondInvocationIsFresh ==
    SecondRun =>
        /\ pc = "Spawned" => output = <<>>
        /\ CapturedOut \o bufOut \o pipeOut = wroteOut
        /\ CapturedErr \o bufErr \o pipeErr = wroteErr
        /\ Len(output) = Len(CapturedOut) + Len(CapturedErr)
        /\ IsPrefix(wroteOut, textOut)
        /\ IsPrefix(wroteErr, textErr)
        /\ child = "running" => exitStatus = NoStatus
        /\ StatusEvaluated => (child = "exited" /\ status = exitStatus)
        /\ (planExit = Some(0) /\ ~Fault) =>
              /\ pc # "Aborted"
              /\ diag = NoDiag
              /\ (Len(textOut) <= PipeCap /\ Len(textErr) <= PipeCap)
                    => (pc = "Succeeded" \/ CanProceed)

C11_Witness ==
    /\ calls = 1
    /\ pc = "Succeeded"
    /\ Len(output) = 2
    /\ status = Exited(0)

\* C12: there is no timeout: while a child that never exits is running (no
\* failure reported, no signal), simple_command has neither returned nor
\* panicked, and once it is in wait() it has no step to take.
C12_HungChildHangsCaller ==
    (child = "running" /\ planExit = Hang /\ ~Fault)
        => /\ ~Terminal
           /\ pc = "Waiting" => ~ENABLED RunnerProgress

C12_Witness ==
    /\ pc = "Waiting"
    /\ child = "running"
    /\ planExit = Hang
    /\ ~outOpen /\ ~errOpen
    /\ Len(output) = 2
    /\ ~Fault

\* the drain loop has ended by its break (line 55)
AfterLoop == pc = "Drained" \/ didWait

\* C13: the drain loop can finish while the child is alive and merely silent,
\* so that what the child writes afterwards is never captured.  For the loop
\* to finish with a stream open and silent, the read of that stream has to
\* return: with the child running, both streams open and nothing in the
\* pipes, stdout.fill_buf() can return.
C13_LoopCanEndWhileChildSilent ==
    (pc = "FillStdout" /\ child = "running" /\ outOpen /\ errOpen
        /\ pipeOut = <<>> /\ pipeErr = <<>> /\ bufOut = <<>>)
        => ENABLED FillStdoutOk

\* C14: an iteration of the drain loop that got a byte from either stream
\* appends what it got, consumes it and starts another iteration; the loop
\* ends only from an iteration in which both reads gave zero bytes.
C14_LoopEndsOnlyOnTwoEmptyReads ==
    [][(pc = "Match" /\ pc' # "Match" /\ resOut = "ok" /\ resErr = "ok")
          => /\ output' = output \o bufOut \o bufErr
             /\ IF bufOut = <<>> /\ bufErr = <<>>
                THEN pc' = "Drained"
                ELSE pc' = "FillStdout" /\ bufOut' = <<>> /\ bufErr' = <<>>]_vars

C14_Witness ==
    /\ pc = "FillStdout"
    /\ origin = <<"out", "out">>
    /\ errOpen = FALSE

\* C15: wait() is called after the drain loop has ended and returns before
\* the outcome is decided: simple_command has not returned and has not
\* panicked with the failed-command message while the child has not exited.
C15_DecisionAfterChildExit ==
    /\ didWait => (didRead /\ resOut = "none" /\ resErr = "none"
                      /\ bufOut = <<>> /\ bufErr = <<>>)
    /\ StatusEvaluated => (didWait /\ child = "exited" /\ exitStatus # NoStatus)

C15_Witness ==
    /\ pc = "Aborted"
    /\ diag.kind = "failed with return value"
    /\ child = "exited"
    /\ didWait

\* the stage of the runner, numbered in the order Idle, Tokenized, Spawned,
\* Draining, Drained, Waited, ended
Stages == <<{"Idle"}, {"Tokenized"}, {"Spawned"}, {"FillStdout", "FillStderr", "Match"},
            {"Drained", "Waiting"}, {"Waited"}, {"Succeeded", "Aborted"}>>
StageOf(p) == CHOOSE i \in 1..Len(Stages) : p \in Stages[i]

\* C16: every step of the runner stays in its stage, moves to the next stage
\* in the order Idle, Tokenized, Spawned, Draining, Drained, Waited,
\* Succeeded, or goes to Aborted; Succeeded and Aborted are never left.
C16_StagesAreLinear ==
    [][/\ \/ StageOf(pc') = StageOf(pc)
          \/ StageOf(pc') = StageOf(pc) + 1
          \/ pc' = "Aborted"
       /\ pc' = "Succeeded" => pc \in {"Waited", "Succeeded"}
       /\ Terminal => pc' = pc]_vars

C16_Witness ==
    /\ pc = "Succeeded"
    /\ Len(output) = 3

Draining == pc \in {"FillStdout", "FillStderr", "Match"}

\* C17: neither stream is starved by the other: while the drain loop runs and
\* a pipe holds a byte the child wrote (no failure reported, no signal), the
\* runner or the child's program can take a step, so that under fair
\* scheduling the byte is read, whatever the child does on the other stream.
C17_NoStarvation ==
    (Draining /\ (pipeOut # <<>> \/ pipeErr # <<>>) /\ ~Fault) => CanProceed

\* C18: the drain loop ends only when both streams are at end-of-stream:
\* once it has ended, both write ends are closed and no byte is left in
\* either pipe or either reader.
C18_LoopEndsAtEndOfBothStreams ==
    AfterLoop
        => /\ ~outOpen /\ ~errOpen
           /\ pipeOut = <<>> /\ pipeErr = <<>>
           /\ bufOut = <<>> /\ bufErr = <<>>

C18_Witness ==
    /\ pc = "Drained"
    /\ child = "running"
    /\ planExit = Some(3)
    /\ Len(wroteOut) = 1
    /\ Len(wroteErr) = 1

\* C19: when what the child's program writes to each stream fits the pipe of
\* that stream and the program ends with an exit, simple_command reaches its
\* end, a return or a panic, under fair scheduling, whatever the order of the
\* child's writes and the runner's reads.
C19_SmallOutputTerminates ==
    (child # "none" /\ Len(textOut) <= PipeCap /\ Len(textErr) <= PipeCap
        /\ planExit # Hang)
        ~> Terminal

C19_Witness ==
    /\ pc = "Succeeded"
    /\ Len(textOut) = PipeCap
    /\ Len(textErr) = PipeCap
    /\ Len(output) = 2 * PipeCap

====
